---- MODULE Spec2Model ----
(***************************************************************************)
(* Model of pkg/k8s/util.go of escalator: the pod classification           *)
(* predicates, the usage aggregator CalculatePodsRequestedUsage, the       *)
(* grouping mapPods, GetNodeAvailableResources and the capacity aggregator *)
(* CalculateNodesCapacity.                                                 *)
(*                                                                         *)
(* A resource.Quantity is modelled by the integer number of thousandths of *)
(* its unit it holds: a CPU quantity of c milli-cores is c, a memory       *)
(* quantity of m bytes is 1000 * m.  A *v1.Pod is modelled by its index in *)
(* the input list, so that two equal pods stay two pods.                   *)
(***************************************************************************)
EXTENDS Integers, Sequences, FiniteSets, TLC

VARIABLES pods, nodes, pc, i, usage, capacity, mappedPods, avail,
          scheduled, usingRes

vars == <<pods, nodes, pc, i, usage, capacity, mappedPods, avail,
          scheduled, usingRes>>

(* ------------------------------ bounds --------------------------------- *)
MaxUsagePods == 3
MaxReq == 2
MaxConds == 3
MaxMapPods == 3
MaxAvailPods == 2
MaxAlloc == 2
MaxNodes == 2
MaxCapPods == 2

(* ------------------------- the Kubernetes types ------------------------ *)
PodPending == "Pending"
PodRunning == "Running"
PodSucceeded == "Succeeded"
PodFailed == "Failed"
PodUnknown == "Unknown"
PodPhases == {PodPending, PodRunning, PodSucceeded, PodFailed, PodUnknown}

PodScheduled == "PodScheduled"
PodReady == "Ready"
ConditionTrue == "True"
ConditionFalse == "False"
ConditionUnknown == "Unknown"

NodeNames == {"n1", "n2"}

SeqsUpTo(S, n) == UNION {[1..k -> S] : k \in 0..n}

(* ------------------------- resource.Quantity --------------------------- *)
Scale == 1000

NewCPUQuantity(value) == value

NewMemoryQuantity(value) == value * Scale

MilliValue(q) == q

Value(q) == -((-q) \div Scale)

Add(q, y) == q + y

Cpu(node) == node.AllocCPU

Memory(node) == node.AllocMemory

ComputePodResourceRequest(pod) == [MilliCPU |-> pod.MilliCPU, Memory |-> pod.Memory]

(* ----------------------------- util.go --------------------------------- *)
\* faulty variant: the empty item starts at one milli-core
newEmptyResourceItem_OneMilli == [CPU |-> NewCPUQuantity(1), Memory |-> NewMemoryQuantity(0)]

newEmptyResourceItem == [CPU |-> NewCPUQuantity(0), Memory |-> NewMemoryQuantity(0)]

newResourceItem(cpu, memory) ==
    [CPU |-> NewCPUQuantity(cpu), Memory |-> NewMemoryQuantity(memory)]

NewPodRequestedUsage ==
    [Total |-> newEmptyResourceItem,
     LargestMemory |-> newEmptyResourceItem,
     LargestCPU |-> newEmptyResourceItem]

newNodeAvailableCapacity ==
    [Total |-> newEmptyResourceItem,
     LargestAvailableMemory |-> newEmptyResourceItem,
     LargestAvailableCPU |-> newEmptyResourceItem]

\* faulty variant: the additions to Total moved inside the Pending branch
PodUsageStep_TotalInsidePending(ret, pod) ==
    LET podResources == ComputePodResourceRequest(pod)
        total == [CPU |-> Add(ret.Total.CPU, NewCPUQuantity(podResources.MilliCPU)),
                  Memory |-> Add(ret.Total.Memory, NewMemoryQuantity(podResources.Memory))]
        item == newResourceItem(podResources.MilliCPU, podResources.Memory)
    IN  IF pod.Phase = PodPending
        THEN [Total |-> total,
              LargestMemory |-> IF podResources.Memory > Value(ret.LargestMemory.Memory)
                                THEN item ELSE ret.LargestMemory,
              LargestCPU |-> IF podResources.MilliCPU > MilliValue(ret.LargestCPU.CPU)
                             THEN item ELSE ret.LargestCPU]
        ELSE ret

\* faulty variant: >= in place of > in the two comparisons
PodUsageStep_ReplaceOnTie(ret, pod) ==
    LET podResources == ComputePodResourceRequest(pod)
        total == [CPU |-> Add(ret.Total.CPU, NewCPUQuantity(podResources.MilliCPU)),
                  Memory |-> Add(ret.Total.Memory, NewMemoryQuantity(podResources.Memory))]
        item == newResourceItem(podResources.MilliCPU, podResources.Memory)
    IN  IF pod.Phase = PodPending
        THEN [Total |-> total,
              LargestMemory |-> IF podResources.Memory >= Value(ret.LargestMemory.Memory)
                                THEN item ELSE ret.LargestMemory,
              LargestCPU |-> IF podResources.MilliCPU >= MilliValue(ret.LargestCPU.CPU)
                             THEN item ELSE ret.LargestCPU]
        ELSE [ret EXCEPT !.Total = total]

\* faulty variant: the test of the phase left out
PodUsageStep_NoPhaseCheck(ret, pod) ==
    LET podResources == ComputePodResourceRequest(pod)
        total == [CPU |-> Add(ret.Total.CPU, NewCPUQuantity(podResources.MilliCPU)),
                  Memory |-> Add(ret.Total.Memory, NewMemoryQuantity(podResources.Memory))]
        item == newResourceItem(podResources.MilliCPU, podResources.Memory)
    IN  [Total |-> total,
         LargestMemory |-> IF podResources.Memory > Value(ret.LargestMemory.Memory)
                           THEN item ELSE ret.LargestMemory,
         LargestCPU |-> IF podResources.MilliCPU > MilliValue(ret.LargestCPU.CPU)
                        THEN item ELSE ret.LargestCPU]

\* one iteration of the loop of CalculatePodsRequestedUsage
PodUsageStep(ret, pod) ==
    LET podResources == ComputePodResourceRequest(pod)
        total == [CPU |-> Add(ret.Total.CPU, NewCPUQuantity(podResources.MilliCPU)),
                  Memory |-> Add(ret.Total.Memory, NewMemoryQuantity(podResources.Memory))]
        item == newResourceItem(podResources.MilliCPU, podResources.Memory)
    IN  IF pod.Phase = PodPending
        THEN [Total |-> total,
              LargestMemory |-> IF podResources.Memory > Value(ret.LargestMemory.Memory)
                                THEN item ELSE ret.LargestMemory,
              LargestCPU |-> IF podResources.MilliCPU > MilliValue(ret.LargestCPU.CPU)
                             THEN item ELSE ret.LargestCPU]
        ELSE [ret EXCEPT !.Total = total]

CalculatePodsRequestedUsage(ps) ==
    LET ret[k \in 0..Len(ps)] ==
            IF k = 0 THEN NewPodRequestedUsage ELSE PodUsageStep(ret[k - 1], ps[k])
    IN  ret[Len(ps)]

\* faulty variant: the pod that opens a group is not appended to it
MapPodsStep_NewGroupEmpty(ret, ps, k) ==
    LET name == ps[k].NominatedNodeName
        found == name \in DOMAIN ret
        val == IF found THEN ret[name] ELSE <<>>
    IN  [n \in (DOMAIN ret) \cup {name} |->
            IF n = name THEN (IF found THEN Append(val, k) ELSE val) ELSE ret[n]]

\* one iteration of the loop of mapPods; k is the pod (pointer) ps[k]
MapPodsStep(ret, ps, k) ==
    LET name == ps[k].NominatedNodeName
        found == name \in DOMAIN ret
        val == IF found THEN ret[name] ELSE <<>>
    IN  [n \in (DOMAIN ret) \cup {name} |-> IF n = name THEN Append(val, k) ELSE ret[n]]

EmptyMap == [n \in {} |-> <<>>]

mapPods(ps) ==
    LET ret[k \in 0..Len(ps)] ==
            IF k = 0 THEN EmptyMap ELSE MapPodsStep(ret[k - 1], ps, k)
    IN  ret[Len(ps)]

\* faulty variant: the loop goes on after a PodScheduled condition that is not True
isPodScheduled_AnyTrue(pod) ==
    LET conds == pod.Conditions
        loop[k \in 1..(Len(conds) + 1)] ==
            IF k > Len(conds) THEN FALSE
            ELSE IF conds[k].Type = PodScheduled /\ conds[k].Status = ConditionTrue
                 THEN TRUE
                 ELSE loop[k + 1]
    IN  loop[1]

isPodScheduled(pod) ==
    LET conds == pod.Conditions
        loop[k \in 1..(Len(conds) + 1)] ==
            IF k > Len(conds) THEN FALSE
            ELSE IF conds[k].Type = PodScheduled
                 THEN conds[k].Status = ConditionTrue
                 ELSE loop[k + 1]
    IN  loop[1]

\* faulty variant: the test of the phase left out
isPodUsingNodeResources_AnyPhase(pod) == isPodScheduled(pod)

isPodUsingNodeResources(pod) ==
    isPodScheduled(pod) /\ (pod.Phase = PodPending \/ pod.Phase = PodRunning)

\* filteredPods holds pod pointers (indexes into heap); f maps a pointer to
\* the value the callback returns for the pod
sumByFunc(heap, filteredPods, f) ==
    LET ret[k \in 0..Len(filteredPods)] ==
            IF k = 0 THEN 0
            ELSE IF isPodUsingNodeResources(heap[filteredPods[k]])
                 THEN ret[k - 1] + f[filteredPods[k]]
                 ELSE ret[k - 1]
    IN  ret[Len(filteredPods)]

GetNodeAvailableResources(heap, node, groups) ==
    LET filteredPods == IF node.Name \in DOMAIN groups THEN groups[node.Name] ELSE <<>>
        cpuOf == [p \in DOMAIN heap |-> ComputePodResourceRequest(heap[p]).MilliCPU]
        memOf == [p \in DOMAIN heap |-> ComputePodResourceRequest(heap[p]).Memory]
        usedCpu == sumByFunc(heap, filteredPods, cpuOf)
        usedMemory == sumByFunc(heap, filteredPods, memOf)
    IN  newResourceItem(MilliValue(Cpu(node)) - usedCpu, Value(Memory(node)) - usedMemory)

\* faulty variant: Total accumulates the available instead of the allocatable resources
NodeCapacityStep_TotalOfAvailable(ret, availableResource, node) ==
    LET allocatable == [CPU |-> Cpu(node), Memory |-> Memory(node)]
    IN  [Total |-> [CPU |-> Add(ret.Total.CPU, availableResource.CPU),
                    Memory |-> Add(ret.Total.Memory, availableResource.Memory)],
         LargestAvailableCPU |->
             IF MilliValue(availableResource.CPU) > MilliValue(ret.LargestAvailableCPU.CPU)
             THEN allocatable ELSE ret.LargestAvailableCPU,
         LargestAvailableMemory |->
             IF Value(availableResource.Memory) > Value(ret.LargestAvailableMemory.Memory)
             THEN allocatable ELSE ret.LargestAvailableMemory]

\* faulty variant: the available pair is stored instead of the allocatable pair
NodeCapacityStep_StoreAvailable(ret, availableResource, node) ==
    [Total |-> [CPU |-> Add(ret.Total.CPU, Cpu(node)),
                Memory |-> Add(ret.Total.Memory, Memory(node))],
     LargestAvailableCPU |->
         IF MilliValue(availableResource.CPU) > MilliValue(ret.LargestAvailableCPU.CPU)
         THEN availableResource ELSE ret.LargestAvailableCPU,
     LargestAvailableMemory |->
         IF Value(availableResource.Memory) > Value(ret.LargestAvailableMemory.Memory)
         THEN availableResource ELSE ret.LargestAvailableMemory]

\* one iteration of the loop of CalculateNodesCapacity
NodeCapacityStep(ret, availableResource, node) ==
    LET allocatable == [CPU |-> Cpu(node), Memory |-> Memory(node)]
    IN  [Total |-> [CPU |-> Add(ret.Total.CPU, Cpu(node)),
                    Memory |-> Add(ret.Total.Memory, Memory(node))],
         LargestAvailableCPU |->
             IF MilliValue(availableResource.CPU) > MilliValue(ret.LargestAvailableCPU.CPU)
             THEN allocatable ELSE ret.LargestAvailableCPU,
         LargestAvailableMemory |->
             IF Value(availableResource.Memory) > Value(ret.LargestAvailableMemory.Memory)
             THEN allocatable ELSE ret.LargestAvailableMemory]

(* ------------------------------ inputs --------------------------------- *)
NoConditions == <<>>
ScheduledCond(status) == <<[Type |-> PodScheduled, Status |-> status]>>

Pod(phase, conds, name, cpu, mem) ==
    [Phase |-> phase, Conditions |-> conds, NominatedNodeName |-> name,
     MilliCPU |-> cpu, Memory |-> mem]

Node(name, cpu, mem) ==
    [Name |-> name, AllocCPU |-> NewCPUQuantity(cpu), AllocMemory |-> NewMemoryQuantity(mem)]

\* nodes with every allocatable CPU and the smallest and the largest allocatable memory
NodeDomain == {Node(n, c, m) : n \in NodeNames, c \in 1..MaxAlloc, m \in {1, MaxAlloc}}

\* pods given to the usage aggregator: unscheduled pending pods with every
\* request of at most MaxReq units in all, and a scheduled pod of every other
\* phase with the largest request in both dimensions
UsagePodDomain ==
    {p \in {Pod(PodPending, NoConditions, "", c, m) : c \in 0..MaxReq, m \in 0..MaxReq} :
         p.MilliCPU + p.Memory <= MaxReq}
    \cup {Pod(ph, ScheduledCond(ConditionTrue), "n1", MaxReq, MaxReq) :
              ph \in PodPhases \ {PodPending}}

ConditionDomain ==
    [Type : {PodScheduled, PodReady},
     Status : {ConditionTrue, ConditionFalse, ConditionUnknown}]

CondPodDomain ==
    {Pod(ph, cs, "", 1, 1) : ph \in PodPhases, cs \in SeqsUpTo(ConditionDomain, MaxConds)}

MapPodDomain ==
    {Pod(ph, NoConditions, n, 1, 1) : ph \in {PodPending, PodRunning}, n \in NodeNames \cup {""}}

AvailPodDomain ==
    {Pod(ph, cs, n, 1, 2) :
        ph \in PodPhases,
        cs \in {NoConditions, ScheduledCond(ConditionTrue), ScheduledCond(ConditionFalse)},
        n \in {"", "n1"}}

\* pods given to the capacity aggregator: a scheduled running pod on every
\* node, a scheduled Succeeded pod and an unscheduled Pending pod on n1
CapPodDomain ==
    {Pod(PodRunning, ScheduledCond(ConditionTrue), n, 1, 1) : n \in NodeNames}
    \cup {Pod(PodSucceeded, ScheduledCond(ConditionTrue), "n1", 1, 1),
          Pod(PodPending, NoConditions, "n1", 1, 1)}

(* ---------------------------- state machine ---------------------------- *)
InitCommon ==
    /\ i = 0
    /\ usage = NewPodRequestedUsage
    /\ capacity = newNodeAvailableCapacity
    /\ mappedPods = EmptyMap
    /\ avail = newEmptyResourceItem
    /\ scheduled = FALSE
    /\ usingRes = FALSE

\* CalculatePodsRequestedUsage(pods)
InitUsage ==
    /\ pods \in SeqsUpTo(UsagePodDomain, MaxUsagePods)
    /\ nodes = <<>>
    /\ pc = "usage_loop"
    /\ InitCommon

UsageLoop ==
    /\ pc = "usage_loop"
    /\ i < Len(pods)
    /\ usage' = PodUsageStep(usage, pods[i + 1])
    /\ i' = i + 1
    /\ UNCHANGED <<pods, nodes, pc, capacity, mappedPods, avail, scheduled, usingRes>>

UsageReturn ==
    /\ pc = "usage_loop"
    /\ i = Len(pods)
    /\ pc' = "usage_done"
    /\ UNCHANGED <<pods, nodes, i, usage, capacity, mappedPods, avail, scheduled, usingRes>>

NextUsage == UsageLoop \/ UsageReturn

SpecUsage == InitUsage /\ [][NextUsage]_vars

\* mapPods(pods)
InitMap ==
    /\ pods \in SeqsUpTo(MapPodDomain, MaxMapPods)
    /\ nodes = <<>>
    /\ pc = "map_loop"
    /\ InitCommon

MapLoop ==
    /\ pc = "map_loop"
    /\ i < Len(pods)
    /\ mappedPods' = MapPodsStep(mappedPods, pods, i + 1)
    /\ i' = i + 1
    /\ UNCHANGED <<pods, nodes, pc, usage, capacity, avail, scheduled, usingRes>>

MapReturn ==
    /\ pc = "map_loop"
    /\ i = Len(pods)
    /\ pc' = "map_done"
    /\ UNCHANGED <<pods, nodes, i, usage, capacity, mappedPods, avail, scheduled, usingRes>>

NextMap == MapLoop \/ MapReturn

SpecMap == InitMap /\ [][NextMap]_vars

\* isPodScheduled(pod), then isPodUsingNodeResources(pod), of the pod pods[1]
InitCond ==
    /\ pods \in {<<p>> : p \in CondPodDomain}
    /\ nodes = <<>>
    /\ pc = "cond_scheduled"
    /\ InitCommon

CallIsPodScheduled ==
    /\ pc = "cond_scheduled"
    /\ scheduled' = isPodScheduled(pods[1])
    /\ pc' = "cond_using"
    /\ UNCHANGED <<pods, nodes, i, usage, capacity, mappedPods, avail, usingRes>>

CallIsPodUsingNodeResources ==
    /\ pc = "cond_using"
    /\ usingRes' = isPodUsingNodeResources(pods[1])
    /\ pc' = "cond_done"
    /\ UNCHANGED <<pods, nodes, i, usage, capacity, mappedPods, avail, scheduled>>

NextCond == CallIsPodScheduled \/ CallIsPodUsingNodeResources

SpecCond == InitCond /\ [][NextCond]_vars

\* GetNodeAvailableResources(node, mapPods(pods)) of the node nodes[1]
InitAvail ==
    /\ pods \in SeqsUpTo(AvailPodDomain, MaxAvailPods)
    /\ nodes \in {<<n>> : n \in NodeDomain}
    /\ pc = "avail_map"
    /\ InitCommon

AvailMap ==
    /\ pc = "avail_map"
    /\ mappedPods' = mapPods(pods)
    /\ pc' = "avail_call"
    /\ UNCHANGED <<pods, nodes, i, usage, capacity, avail, scheduled, usingRes>>

AvailCall ==
    /\ pc = "avail_call"
    /\ avail' = GetNodeAvailableResources(pods, nodes[1], mappedPods)
    /\ pc' = "avail_done"
    /\ UNCHANGED <<pods, nodes, i, usage, capacity, mappedPods, scheduled, usingRes>>

NextAvail == AvailMap \/ AvailCall

SpecAvail == InitAvail /\ [][NextAvail]_vars

\* CalculatePodsRequestedUsage(pods), then CalculateNodesCapacity(nodes, pods)
InitCapacity ==
    /\ pods \in SeqsUpTo(CapPodDomain, MaxCapPods)
    /\ nodes \in SeqsUpTo(NodeDomain, MaxNodes)
    /\ pc = "usage_loop"
    /\ InitCommon

CapMap ==
    /\ pc = "usage_done"
    /\ mappedPods' = mapPods(pods)
    /\ i' = 0
    /\ pc' = "cap_loop"
    /\ UNCHANGED <<pods, nodes, usage, capacity, avail, scheduled, usingRes>>

CapLoop ==
    /\ pc = "cap_loop"
    /\ i < Len(nodes)
    /\ avail' = GetNodeAvailableResources(pods, nodes[i + 1], mappedPods)
    /\ capacity' = NodeCapacityStep(capacity, avail', nodes[i + 1])
    /\ i' = i + 1
    /\ UNCHANGED <<pods, nodes, pc, usage, mappedPods, scheduled, usingRes>>

CapReturn ==
    /\ pc = "cap_loop"
    /\ i = Len(nodes)
    /\ pc' = "cap_done"
    /\ UNCHANGED <<pods, nodes, i, usage, capacity, mappedPods, avail, scheduled, usingRes>>

NextCapacity == UsageLoop \/ UsageReturn \/ CapMap \/ CapLoop \/ CapReturn

SpecCapacity == InitCapacity /\ [][NextCapacity]_vars

(* ------------------------- auxiliary operators ------------------------- *)
SumTo(n, f) ==
    LET s[k \in 0..n] == IF k = 0 THEN 0 ELSE s[k - 1] + f[k]
    IN  s[n]

SumOver(S, n, f) ==
    LET s[k \in 0..n] == IF k = 0 THEN 0
                         ELSE IF k \in S THEN s[k - 1] + f[k] ELSE s[k - 1]
    IN  s[n]

SetMax(S) == CHOOSE x \in S : \A y \in S : y <= x
SetMin(S) == CHOOSE x \in S : \A y \in S : x <= y

ReqCPU == [k \in 1..Len(pods) |-> ComputePodResourceRequest(pods[k]).MilliCPU]
ReqMem == [k \in 1..Len(pods) |-> ComputePodResourceRequest(pods[k]).Memory]

HoldsPair(item, cpu, mem) == MilliValue(item.CPU) = cpu /\ Value(item.Memory) = mem

InUsage == pc \in {"usage_loop", "usage_done"}

PermsOf(n) == Permutations(1..n)

(* ------------------------------- C1 ------------------------------------ *)
\* C1: Total.CPU is the sum of the CPU requests and Total.Memory the sum of the
\* memory requests of all pods processed so far (of the whole list on return),
\* whatever their phase and whether or not they are scheduled.
C1_TotalSumsAllPods ==
    InUsage =>
        /\ MilliValue(usage.Total.CPU) = SumTo(i, ReqCPU)
        /\ Value(usage.Total.Memory) = SumTo(i, ReqMem)
        /\ (pc = "usage_done" => i = Len(pods))

C1_Witness ==
    /\ pc = "usage_done"
    /\ Len(pods) >= 3
    /\ \E k \in 1..Len(pods) : pods[k].Phase = PodSucceeded /\ ReqCPU[k] > 0
    /\ \E k \in 1..Len(pods) : pods[k].Phase = PodRunning /\ ReqMem[k] > 0
    /\ \E k \in 1..Len(pods) : pods[k].Phase = PodPending /\ ~isPodScheduled(pods[k])
    /\ MilliValue(usage.Total.CPU) > MilliValue(usage.LargestCPU.CPU)

(* ------------------------------- C2 ------------------------------------ *)
PendingUpTo(n) == {k \in 1..n : pods[k].Phase = PodPending}

\* the first pending pod, among the first n pods, whose request r is the
\* largest of the pending ones; 0 when no pending pod requests more than 0
FirstLargest(n, r) ==
    LET pend == PendingUpTo(n)
        top == SetMax({r[k] : k \in pend} \cup {0})
    IN  IF top = 0 THEN 0 ELSE SetMin({k \in pend : r[k] = top})

IsPairOfPod(item, k) ==
    IF k = 0 THEN HoldsPair(item, 0, 0) ELSE HoldsPair(item, ReqCPU[k], ReqMem[k])

UniqueLargest(r) ==
    LET pend == PendingUpTo(Len(pods))
        top == SetMax({r[k] : k \in pend} \cup {0})
    IN  Cardinality({k \in pend : r[k] = top}) = 1

Permuted(f) == [k \in 1..Len(pods) |-> pods[f[k]]]

\* C2: LargestMemory is the pair of the first pending pod whose memory request
\* is the largest of the pending pods (the zero pair when none requests more
\* than 0), LargestCPU likewise by CPU request; with a unique largest request
\* every permutation of the input gives the same field.
C2_LargestIsFirstMaxPending ==
    InUsage =>
        /\ IsPairOfPod(usage.LargestMemory, FirstLargest(i, ReqMem))
        /\ IsPairOfPod(usage.LargestCPU, FirstLargest(i, ReqCPU))
        /\ (pc = "usage_done" /\ UniqueLargest(ReqMem)) =>
              \A f \in PermsOf(Len(pods)) :
                  CalculatePodsRequestedUsage(Permuted(f)).LargestMemory = usage.LargestMemory
        /\ (pc = "usage_done" /\ UniqueLargest(ReqCPU)) =>
              \A f \in PermsOf(Len(pods)) :
                  CalculatePodsRequestedUsage(Permuted(f)).LargestCPU = usage.LargestCPU

\* two pending pods tie on the largest memory request with different CPU
\* requests, and the largest CPU request belongs to another pod than LargestMemory
C2_Witness ==
    /\ pc = "usage_done"
    /\ \E a, b \in PendingUpTo(Len(pods)) :
          /\ a < b
          /\ ReqMem[a] = ReqMem[b]
          /\ ReqCPU[a] # ReqCPU[b]
          /\ FirstLargest(Len(pods), ReqMem) = a
    /\ usage.LargestCPU # usage.LargestMemory

(* ------------------------------- C3 ------------------------------------ *)
IsPending(pod) == pod.Phase = PodPending

\* C3: a pod that is not Pending never changes LargestMemory or LargestCPU and
\* still adds its request to Total; the two fields of a list are those of the
\* list with the non-Pending pods removed.
C3_StateInv ==
    pc = "usage_done" =>
        LET kept == CalculatePodsRequestedUsage(SelectSeq(pods, IsPending))
        IN  /\ usage.LargestMemory = kept.LargestMemory
            /\ usage.LargestCPU = kept.LargestCPU

C3_StepProp ==
    (pc = "usage_loop" /\ i < Len(pods) /\ pods[i + 1].Phase # PodPending) =>
        /\ usage'.LargestMemory = usage.LargestMemory
        /\ usage'.LargestCPU = usage.LargestCPU
        /\ MilliValue(usage'.Total.CPU) = MilliValue(usage.Total.CPU) + ReqCPU[i + 1]
        /\ Value(usage'.Total.Memory) = Value(usage.Total.Memory) + ReqMem[i + 1]

C3_NonPendingNeverLargest == [](C3_StateInv) /\ [][C3_StepProp]_vars

C3_Witness ==
    /\ pc = "usage_done"
    /\ PendingUpTo(Len(pods)) # {}
    /\ MilliValue(usage.LargestCPU.CPU) > 0
    /\ \E k \in 1..Len(pods) :
          /\ pods[k].Phase = PodRunning
          /\ \A j \in PendingUpTo(Len(pods)) :
                ReqMem[k] > ReqMem[j] /\ ReqCPU[k] > ReqCPU[j]

(* ------------------------------- C4 ------------------------------------ *)
HasScheduledTrue(pod) ==
    \E k \in 1..Len(pod.Conditions) :
        pod.Conditions[k].Type = PodScheduled /\ pod.Conditions[k].Status = ConditionTrue

InGroupOf(node, k) ==
    /\ node.Name \in DOMAIN mappedPods
    /\ \E pos \in 1..Len(mappedPods[node.Name]) : mappedPods[node.Name][pos] = k

\* the pods the claim counts against a node
Counted(node) ==
    {k \in 1..Len(pods) :
        /\ InGroupOf(node, k)
        /\ HasScheduledTrue(pods[k])
        /\ pods[k].Phase \in {PodPending, PodRunning}}

\* C4: GetNodeAvailableResources returns the node's allocatable CPU and memory
\* minus the requests of the pods of the node's group that are scheduled and
\* Pending or Running, and of no other pod; the result is not clamped at zero.
C4_AvailableIsAllocatableMinusCounted ==
    pc = "avail_done" =>
        /\ MilliValue(avail.CPU) =
               MilliValue(Cpu(nodes[1])) - SumOver(Counted(nodes[1]), Len(pods), ReqCPU)
        /\ Value(avail.Memory) =
               Value(Memory(nodes[1])) - SumOver(Counted(nodes[1]), Len(pods), ReqMem)

\* over-commit in memory with one counted pod, next to a scheduled Succeeded
\* pod of the same group that is not counted
C4_Witness ==
    /\ pc = "avail_done"
    /\ Value(avail.Memory) < 0
    /\ \E k \in 1..Len(pods) :
          /\ InGroupOf(nodes[1], k)
          /\ HasScheduledTrue(pods[k])
          /\ pods[k].Phase = PodSucceeded

(* ------------------------------- C5 ------------------------------------ *)
AvailCPUOf == [k \in 1..Len(nodes) |->
                 MilliValue(GetNodeAvailableResources(pods, nodes[k], mapPods(pods)).CPU)]
AvailMemOf == [k \in 1..Len(nodes) |->
                 Value(GetNodeAvailableResources(pods, nodes[k], mapPods(pods)).Memory)]
AllocatablePair(k) == [CPU |-> Cpu(nodes[k]), Memory |-> Memory(nodes[k])]

\* C5: on return LargestAvailableCPU is the allocatable pair of a node whose
\* available CPU is the largest of all nodes, and LargestAvailableMemory that
\* of a node whose available memory is the largest, whenever some node has
\* positive availability in that dimension.
C5_LargestAvailableIsMostHeadroom ==
    pc = "cap_done" =>
        LET N == 1..Len(nodes)
        IN  /\ (\E k \in N : AvailCPUOf[k] > 0) =>
                  \E k \in N : /\ \A j \in N : AvailCPUOf[j] <= AvailCPUOf[k]
                               /\ capacity.LargestAvailableCPU = AllocatablePair(k)
            /\ (\E k \in N : AvailMemOf[k] > 0) =>
                  \E k \in N : /\ \A j \in N : AvailMemOf[j] <= AvailMemOf[k]
                               /\ capacity.LargestAvailableMemory = AllocatablePair(k)

(* ------------------------------- C6 ------------------------------------ *)
ScheduledPositions(pod) ==
    {k \in 1..Len(pod.Conditions) : pod.Conditions[k].Type = PodScheduled}

FirstScheduledIsTrue(pod) ==
    /\ ScheduledPositions(pod) # {}
    /\ pod.Conditions[SetMin(ScheduledPositions(pod))].Status = ConditionTrue

\* C6 as stated: isPodScheduled is true iff some condition of type
\* PodScheduled has status True, also with several PodScheduled conditions;
\* isPodUsingNodeResources iff that and the phase is Pending or Running.
C6_Original ==
    pc = "cond_done" =>
        /\ scheduled <=> HasScheduledTrue(pods[1])
        /\ usingRes <=> (HasScheduledTrue(pods[1]) /\ pods[1].Phase \in {PodPending, PodRunning})

\* C6 amended: isPodScheduled is true iff the list holds a condition of type
\* PodScheduled and the first of them has status True; isPodUsingNodeResources
\* iff that and the phase is Pending or Running.
C6_FirstScheduledConditionDecides ==
    pc = "cond_done" =>
        /\ scheduled <=> FirstScheduledIsTrue(pods[1])
        /\ usingRes <=> (FirstScheduledIsTrue(pods[1]) /\ pods[1].Phase \in {PodPending, PodRunning})

C6_Witness ==
    /\ pc = "cond_done"
    /\ Cardinality(ScheduledPositions(pods[1])) >= 2
    /\ HasScheduledTrue(pods[1])
    /\ pods[1].Conditions[1].Type # PodScheduled
    /\ ~scheduled
    /\ pods[1].Phase = PodRunning

(* ------------------------------- C7 ------------------------------------ *)
Slots == {<<n, pos>> : n \in DOMAIN mappedPods, pos \in 1..MaxMapPods + 1}
SlotsOf(k) == {s \in Slots : s[2] <= Len(mappedPods[s[1]]) /\ mappedPods[s[1]][s[2]] = k}

RECURSIVE SumSizes(_)
SumSizes(S) == IF S = {} THEN 0
               ELSE LET n == CHOOSE x \in S : TRUE
                    IN  Len(mappedPods[n]) + SumSizes(S \ {n})

\* C7: every pod processed so far (every input pod on return) is in exactly one
\* group, the one keyed by its NominatedNodeName; groups keep input order, none
\* is empty and the sizes sum to the number of pods.
C7_GroupingIsPartition ==
    pc \in {"map_loop", "map_done"} =>
        /\ \A k \in 1..i :
              /\ Cardinality(SlotsOf(k)) = 1
              /\ \A s \in SlotsOf(k) : s[1] = pods[k].NominatedNodeName
        /\ \A n \in DOMAIN mappedPods :
              /\ Len(mappedPods[n]) > 0
              /\ \A a, b \in 1..Len(mappedPods[n]) : a < b => mappedPods[n][a] < mappedPods[n][b]
        /\ SumSizes(DOMAIN mappedPods) = i
        /\ (pc = "map_done" => i = Len(pods))

C7_Witness ==
    /\ pc = "map_done"
    /\ Len(pods) >= 3
    /\ "" \in DOMAIN mappedPods
    /\ \E n \in DOMAIN mappedPods : n # "" /\ Len(mappedPods[n]) >= 2

(* ------------------------------- C8 ------------------------------------ *)
AllocCPUAt == [k \in 1..Len(nodes) |-> MilliValue(Cpu(nodes[k]))]
AllocMemAt == [k \in 1..Len(nodes) |-> Value(Memory(nodes[k]))]

\* C8: Total.CPU and Total.Memory are the sums of the allocatable CPU and
\* memory of all nodes processed so far (of all nodes on return), whatever the
\* pods and the availability of the nodes.
C8_TotalSumsAllocatable ==
    pc \in {"cap_loop", "cap_done"} =>
        /\ MilliValue(capacity.Total.CPU) = SumTo(i, AllocCPUAt)
        /\ Value(capacity.Total.Memory) = SumTo(i, AllocMemAt)
        /\ (pc = "cap_done" => i = Len(nodes))

C8_Witness ==
    /\ pc = "cap_done"
    /\ Len(nodes) >= 2
    /\ \E k \in 1..Len(nodes) : AvailCPUOf[k] <= 0 /\ AvailMemOf[k] <= 0
    /\ \E k \in 1..Len(nodes) : AvailCPUOf[k] = AllocCPUAt[k]
    /\ MilliValue(capacity.Total.CPU) # Value(capacity.Total.Memory)

(* ------------------------------- C9 ------------------------------------ *)
AllZero(item) == MilliValue(item.CPU) = 0 /\ Value(item.Memory) = 0 /\ item.Memory = 0

\* C9: with no pods CalculatePodsRequestedUsage returns the all-zero summary;
\* with no nodes CalculateNodesCapacity returns the all-zero summary for any pods.
C9_EmptyInputAllZero ==
    /\ (pc \in {"usage_done", "cap_loop", "cap_done"} /\ pods = <<>>) =>
           /\ AllZero(usage.Total)
           /\ AllZero(usage.LargestMemory)
           /\ AllZero(usage.LargestCPU)
    /\ (pc = "cap_done" /\ nodes = <<>>) =>
           /\ AllZero(capacity.Total)
           /\ AllZero(capacity.LargestAvailableMemory)
           /\ AllZero(capacity.LargestAvailableCPU)

C9_Witness ==
    /\ pc = "cap_done"
    /\ pods = <<>>
    /\ nodes = <<>>

(* ------------------------------- C10 ----------------------------------- *)
IsZeroPair(item) == item.CPU = 0 /\ item.Memory = 0

\* each field is the zero pair or the allocatable pair of a processed node
\* with positive availability in the field's dimension
C10_StateInv ==
    pc \in {"cap_loop", "cap_done"} =>
        /\ \/ IsZeroPair(capacity.LargestAvailableCPU)
           \/ \E k \in 1..i : /\ capacity.LargestAvailableCPU = AllocatablePair(k)
                              /\ AvailCPUOf[k] > 0
        /\ \/ IsZeroPair(capacity.LargestAvailableMemory)
           \/ \E k \in 1..i : /\ capacity.LargestAvailableMemory = AllocatablePair(k)
                              /\ AvailMemOf[k] > 0

\* a step replaces a field exactly when the node's availability strictly
\* exceeds the stored component, by the node's allocatable pair
C10_StepProp ==
    (pc = "cap_loop" /\ i < Len(nodes)) =>
        /\ capacity'.LargestAvailableCPU =
               IF AvailCPUOf[i + 1] > MilliValue(capacity.LargestAvailableCPU.CPU)
               THEN AllocatablePair(i + 1) ELSE capacity.LargestAvailableCPU
        /\ capacity'.LargestAvailableMemory =
               IF AvailMemOf[i + 1] > Value(capacity.LargestAvailableMemory.Memory)
               THEN AllocatablePair(i + 1) ELSE capacity.LargestAvailableMemory

\* C10: LargestAvailableCPU is replaced exactly when the node's available CPU
\* is strictly greater than the stored CPU component, by the node's allocatable
\* pair, LargestAvailableMemory likewise on memory and independently; each
\* field is always the zero pair or the allocatable pair of a processed node
\* with positive availability in that dimension.
C10_StrictReplaceByAllocatable == [](C10_StateInv) /\ [][C10_StepProp]_vars

\* the second node's available CPU equals the stored CPU component and does
\* not replace it, while its memory does replace LargestAvailableMemory; the
\* stored pairs differ from the nodes' available pairs
C10_Witness ==
    /\ pc = "cap_done"
    /\ Len(nodes) >= 2
    /\ AvailCPUOf[2] = AllocCPUAt[1]
    /\ AvailCPUOf[1] > 0
    /\ AvailCPUOf[1] < AllocCPUAt[1]
    /\ AllocatablePair(1) # AllocatablePair(2)
    /\ capacity.LargestAvailableCPU = AllocatablePair(1)
    /\ capacity.LargestAvailableMemory = AllocatablePair(2)

====
